---- MODULE Spec2Model ----
(***************************************************************************)
(* Model of the "bilan Drac Draaf" tool: the Grist record resolution       *)
(* (grist_connector.py), the Demarches Simplifiees prefill call            *)
(* (ds_prefiller.py) and the Streamlit session that drives them (app.py).  *)
(*                                                                         *)
(* Conventions.                                                            *)
(*  - A Python str is a sequence of one-character strings.                 *)
(*  - A Python value (a JSON cell, a pandas cell) is a record              *)
(*    [t, n, h, s]: t is the type tag ("int", "float", "nan", "none",      *)
(*    "str"), n the integer part, h the number of halves (a float is       *)
(*    n + h/2), s the characters of a str.                                 *)
(*  - A Python dict is a sequence of [k, v] pairs with distinct keys, in   *)
(*    insertion order.                                                     *)
(*  - A (success, result) tuple is a record [ok, data, msg]: data is the   *)
(*    dict or value returned on success, msg the parts of the message      *)
(*    returned on failure.  Message literals are written without accents. *)
(***************************************************************************)
EXTENDS Integers, Sequences, FiniteSets, TLC

(***************************************************************************)
(* Python values                                                           *)
(***************************************************************************)
PyInt(n) == [t |-> "int", n |-> n, h |-> 0, s |-> <<>>]

PyFloat(n, h) == [t |-> "float", n |-> n, h |-> h, s |-> <<>>]

PyNaN == [t |-> "nan", n |-> 0, h |-> 0, s |-> <<>>]

PyNone == [t |-> "none", n |-> 0, h |-> 0, s |-> <<>>]

PyStr(s) == [t |-> "str", n |-> 0, h |-> 0, s |-> s]

\* bool(v): the truth value Python gives a value (NaN is a non-zero float)
Truthy(v) ==
    CASE v.t = "int" -> v.n # 0
      [] v.t = "float" -> v.n # 0 \/ v.h # 0
      [] v.t = "nan" -> TRUE
      [] v.t = "none" -> FALSE
      [] OTHER -> Len(v.s) > 0

(***************************************************************************)
(* str() and int()                                                         *)
(***************************************************************************)
DigitChars == <<"0", "1", "2", "3", "4", "5", "6", "7", "8", "9">>

DigitSet == {DigitChars[i] : i \in 1..10}

DigitValue(c) == (CHOOSE i \in 1..10 : DigitChars[i] = c) - 1

RECURSIVE NatToStr(_)
NatToStr(n) ==
    IF n < 10 THEN <<DigitChars[n + 1]>>
    ELSE NatToStr(n \div 10) \o <<DigitChars[(n % 10) + 1]>>

IntToStr(n) == IF n < 0 THEN <<"-">> \o NatToStr(0 - n) ELSE NatToStr(n)

\* str(v) of Python (and of the numpy scalars pandas hands back)
PyStrOf(v) ==
    CASE v.t = "int" -> IntToStr(v.n)
      [] v.t = "float" -> IntToStr(v.n) \o (IF v.h = 0 THEN <<".", "0">> ELSE <<".", "5">>)
      [] v.t = "nan" -> <<"n", "a", "n">>
      [] v.t = "none" -> <<"N", "o", "n", "e">>
      [] OTHER -> v.s

RECURSIVE LStrip(_)
LStrip(s) == IF s # <<>> /\ Head(s) = " " THEN LStrip(Tail(s)) ELSE s

RECURSIVE RStrip(_)
RStrip(s) ==
    IF s # <<>> /\ s[Len(s)] = " " THEN RStrip(SubSeq(s, 1, Len(s) - 1)) ELSE s

\* the digits of an int literal: digits, single underscores between digits
IsIntBody(b) ==
    /\ Len(b) > 0
    /\ \A i \in 1..Len(b) : b[i] \in DigitSet \cup {"_"}
    /\ b[1] # "_" /\ b[Len(b)] # "_"
    /\ \A i \in 1..(Len(b) - 1) : ~(b[i] = "_" /\ b[i + 1] = "_")

RECURSIVE IntBodyValue(_, _)
IntBodyValue(b, acc) ==
    IF b = <<>> THEN acc
    ELSE IF Head(b) = "_" THEN IntBodyValue(Tail(b), acc)
    ELSE IntBodyValue(Tail(b), acc * 10 + DigitValue(Head(b)))

\* int(v): [raised, n]; raised is the ValueError / TypeError of Python
PyIntOf(v) ==
    CASE v.t = "int" -> [raised |-> FALSE, n |-> v.n]
      [] v.t = "float" -> [raised |-> FALSE, n |-> v.n]
      [] v.t = "nan" -> [raised |-> TRUE, n |-> 0]
      [] v.t = "none" -> [raised |-> TRUE, n |-> 0]
      [] OTHER ->
           LET st == RStrip(LStrip(v.s))
               signed == st # <<>> /\ Head(st) \in {"+", "-"}
               body == IF signed THEN Tail(st) ELSE st
           IN IF IsIntBody(body)
              THEN [raised |-> FALSE,
                    n |-> IF signed /\ Head(st) = "-"
                          THEN 0 - IntBodyValue(body, 0)
                          ELSE IntBodyValue(body, 0)]
              ELSE [raised |-> TRUE, n |-> 0]

(***************************************************************************)
(* dict                                                                    *)
(***************************************************************************)
Keys(d) == [i \in 1..Len(d) |-> d[i].k]

Has(d, key) == \E i \in 1..Len(d) : d[i].k = key

\* d.get(key, default)
Get(d, key, default) ==
    IF Has(d, key) THEN d[CHOOSE i \in 1..Len(d) : d[i].k = key].v ELSE default

\* d[key] = val: in place when the key exists, appended otherwise
Put(d, key, val) ==
    IF Has(d, key)
    THEN [i \in 1..Len(d) |-> IF d[i].k = key THEN [k |-> key, v |-> val] ELSE d[i]]
    ELSE Append(d, [k |-> key, v |-> val])

\* {k: v for k, v in d.items() if k != key}
RECURSIVE Without(_, _)
Without(d, key) ==
    IF d = <<>> THEN <<>>
    ELSE IF Head(d).k = key THEN Without(Tail(d), key)
    ELSE <<Head(d)>> \o Without(Tail(d), key)

(***************************************************************************)
(* app.py: is_valid_email                                                  *)
(***************************************************************************)
LowerChars ==
    {"a", "b", "c", "d", "e", "f", "g", "h", "i", "j", "k", "l", "m",
     "n", "o", "p", "q", "r", "s", "t", "u", "v", "w", "x", "y", "z"}

UpperChars ==
    {"A", "B", "C", "D", "E", "F", "G", "H", "I", "J", "K", "L", "M",
     "N", "O", "P", "Q", "R", "S", "T", "U", "V", "W", "X", "Y", "Z"}

LetterChars == LowerChars \cup UpperChars

\* [a-zA-Z0-9._%+-]
LocalChars == LetterChars \cup DigitSet \cup {".", "_", "%", "+", "-"}

\* [a-zA-Z0-9.-]
DomainChars == LetterChars \cup DigitSet \cup {".", "-"}

AllIn(s, from, to, chars) == \A i \in from..to : s[i] \in chars

\* ^[a-zA-Z0-9._%+-]+@[a-zA-Z0-9.-]+\.[a-zA-Z]{2,} up to the end of s
MatchesEmailPattern(s) ==
    \E a \in 2..Len(s) :
        /\ s[a] = "@"
        /\ AllIn(s, 1, a - 1, LocalChars)
        /\ \E d \in (a + 2)..(Len(s) - 2) :
               /\ s[d] = "."
               /\ AllIn(s, a + 1, d - 1, DomainChars)
               /\ AllIn(s, d + 1, Len(s), LetterChars)

\* re.match(pattern, email) is not None; "$" also matches before a final newline
is_valid_email(email) ==
    \/ MatchesEmailPattern(email)
    \/ /\ email # <<>>
       /\ email[Len(email)] = "\n"
       /\ MatchesEmailPattern(SubSeq(email, 1, Len(email) - 1))

(***************************************************************************)
(* grist_connector.py: configuration                                       *)
(***************************************************************************)
COL_NOM == "A_nom"

COL_EMAIL == "usager_email"

COL_TITRE_PROJET == "A_titre_du_projet"

COL_NUMERO_DOSSIER == "number"

COL_MONTANT_DRAC == "montant_drac"

COL_MONTANT_DRAAF == "montant_draaf"

GRIST_PROJETS_TABLE == "Demarche_87698_dossiers"

GRIST_ANNOTATIONS_TABLE == "Demarche_87698_annotations"

(***************************************************************************)
(* pandas: DataFrame(rows), boolean filtering, iloc[0].to_dict()           *)
(***************************************************************************)
RECURSIVE AddKeys(_, _)
AddKeys(acc, ks) ==
    IF ks = <<>> THEN acc
    ELSE AddKeys(IF \E i \in 1..Len(acc) : acc[i] = Head(ks)
                 THEN acc ELSE Append(acc, Head(ks)),
                 Tail(ks))

\* the columns of DataFrame(rows): keys in order of first appearance
RECURSIVE UnionKeys(_, _)
UnionKeys(rows, acc) ==
    IF rows = <<>> THEN acc
    ELSE UnionKeys(Tail(rows), AddKeys(acc, Keys(Head(rows))))

\* dtype inferred for a column; a key missing from a row is NaN
ColDtype(rows, c) ==
    LET ts == {Get(rows[i], c, PyNaN).t : i \in 1..Len(rows)}
    IN IF "str" \in ts THEN "object"
       ELSE IF ts \subseteq {"none"} THEN "object"
       ELSE IF ts \subseteq {"int"} THEN "int64"
       ELSE "float64"

\* a value stored in a column of the given dtype
Coerce(v, dtype) ==
    IF dtype = "float64"
    THEN CASE v.t = "int" -> PyFloat(v.n, 0)
           [] v.t = "none" -> PyNaN
           [] OTHER -> v
    ELSE v

\* the frame of rows over the columns cols of dtypes dts
FrameOf(rows, cols, dts) ==
    [columns |-> cols,
     dtypes |-> dts,
     rows |-> [i \in 1..Len(rows) |->
                 [j \in 1..Len(cols) |->
                    [k |-> cols[j],
                     v |-> Coerce(Get(rows[i], cols[j], PyNaN), dts[j])]]]]

FrameOver(rows, cols) ==
    FrameOf(rows, cols, [j \in 1..Len(cols) |-> ColDtype(rows, cols[j])])

\* pd.DataFrame(rows): [columns, dtypes, rows], every row over all columns
DataFrame(rows) == FrameOver(rows, UnionKeys(rows, <<>>))

InColumns(df, c) == \E j \in 1..Len(df.columns) : df.columns[j] = c

\* one cell of (series == x): numbers compare by value; NaN, None and
\* values of another type compare unequal
SeriesEq(v, x) ==
    CASE v.t \in {"int", "float"} /\ x.t \in {"int", "float"} ->
             v.n = x.n /\ v.h = x.h
      [] v.t = "str" /\ x.t = "str" -> v.s = x.s
      [] OTHER -> FALSE

\* the filter forgotten: every row is kept
FilterEq_Unfiltered(df, c, x) == df

\* df[df[c] == x]
FilterEq(df, c, x) ==
    [df EXCEPT !.rows = SelectSeq(df.rows, LAMBDA r : SeriesEq(Get(r, c, PyNaN), x))]

\* df[c].eq(x).any()
AnyEq(df, c, x) == \E i \in 1..Len(df.rows) : SeriesEq(Get(df.rows[i], c, PyNaN), x)

\* every column is numeric and one of them is float64
Upcast(ds) == ds \subseteq {"int64", "float64"} /\ "float64" \in ds

RowAs(df, i, upcast) ==
    [j \in 1..Len(df.columns) |->
       [k |-> df.columns[j],
        v |-> IF upcast THEN Coerce(df.rows[i][j].v, "float64")
              ELSE df.rows[i][j].v]]

\* df.iloc[i].to_dict(): a row of numeric columns only is one float64
\* Series as soon as one column is float64
RowToDict(df, i) ==
    RowAs(df, i, Upcast({df.dtypes[j] : j \in 1..Len(df.columns)}))

(***************************************************************************)
(* grist_connector.py: GristClient.get_table_data                          *)
(*                                                                         *)
(* An HTTP answer is [raises, status, json, text, body]: raises when the   *)
(* transport fails, json when the body parses; the body of a table answer  *)
(* is [hasRecords, records], a record is [hasFields, fields, hasId, id].   *)
(***************************************************************************)
RECURSIVE RowsOfRecords(_)
RowsOfRecords(records) ==
    IF records = <<>> THEN <<>>
    ELSE LET record == Head(records)
         IN (IF record.hasFields
             THEN <<Put(record.fields, "id",
                        IF record.hasId THEN record.id ELSE PyNone)>>
             ELSE <<>>) \o RowsOfRecords(Tail(records))

EmptyFrame == [columns |-> <<>>, dtypes |-> <<>>, rows |-> <<>>]

\* the client raises
Raised(err, requests) ==
    [raised |-> TRUE, err |-> err, df |-> EmptyFrame, requests |-> requests]

\* [raised, err, df, requests]: requests lists the tables asked over HTTP
get_table_data(doc_id, table_id, response) ==
    IF doc_id = ""
    THEN Raised(<<"L'ID du document est requis">>, <<>>)
    ELSE IF response.raises
    THEN Raised(<<response.text>>, <<table_id>>)
    ELSE IF response.status # 200
    THEN Raised(<<"Erreur ">> \o IntToStr(response.status) \o <<": ", response.text>>,
                <<table_id>>)
    ELSE IF ~response.json
    THEN Raised(<<"JSONDecodeError">>, <<table_id>>)
    ELSE IF ~response.body.hasRecords
    THEN Raised(<<"Format de donnees inattendu: ", response.text>>, <<table_id>>)
    ELSE [raised |-> FALSE, err |-> <<>>,
          df |-> DataFrame(RowsOfRecords(response.body.records)),
          requests |-> <<table_id>>]

(***************************************************************************)
(* grist_connector.py: GristClient.list_tables, GristClient.list_documents *)
(*                                                                         *)
(* A JSON value of a listing answer is [kind, name, items, entries]: kind  *)
(* is "list" (items), "object" (entries, a dict) or "leaf" (name).         *)
(***************************************************************************)
JLeaf(name) == [kind |-> "leaf", name |-> name, items |-> <<>>, entries |-> <<>>]

JList(items) == [kind |-> "list", name |-> "", items |-> items, entries |-> <<>>]

JObject(entries) == [kind |-> "object", name |-> "", items |-> <<>>, entries |-> entries]

\* raise ...
ListingRaised(err, requests) ==
    [raised |-> TRUE, err |-> err, value |-> JList(<<>>), requests |-> requests]

\* return value
Listing(value, requests) ==
    [raised |-> FALSE, err |-> <<>>, value |-> value, requests |-> requests]

\* the normalisation of list_tables
TablesOf(data, text, requests) ==
    IF data.kind = "object" /\ Has(data.entries, "tables")
    THEN Listing(Get(data.entries, "tables", JList(<<>>)), requests)
    ELSE IF data.kind = "list"
    THEN Listing(data, requests)
    ELSE ListingRaised(<<"Format de donnees inattendu: ", text>>, requests)

\* [raised, err, value, requests]
list_tables(doc_id, response) ==
    IF doc_id = ""
    THEN ListingRaised(<<"L'ID du document est requis">>, <<>>)
    ELSE IF response.raises
    THEN ListingRaised(<<response.text>>, <<"tables">>)
    ELSE IF response.status # 200
    THEN ListingRaised(<<"Erreur ">> \o IntToStr(response.status)
                           \o <<": ", response.text>>, <<"tables">>)
    ELSE IF ~response.json
    THEN ListingRaised(<<"JSONDecodeError">>, <<"tables">>)
    ELSE TablesOf(response.body, response.text, <<"tables">>)

\* the normalisation of list_documents
DocumentsOf(data, requests) ==
    IF data.kind = "list"
    THEN Listing(data, requests)
    ELSE IF data.kind = "object" /\ Has(data.entries, "docs")
    THEN Listing(Get(data.entries, "docs", JList(<<>>)), requests)
    ELSE Listing(JList(<<data>>), requests)

\* [raised, err, value, requests]: every exception is caught and [] returned
list_documents(response) ==
    IF response.raises \/ response.status # 200 \/ ~response.json
    THEN Listing(JList(<<>>), <<"docs">>)
    ELSE DocumentsOf(response.body, <<"docs">>)

(***************************************************************************)
(* grist_connector.py: rechercher_dossier_par_email                        *)
(***************************************************************************)
\* return False, msg
Echec(msg, requests) ==
    [ok |-> FALSE, data |-> [id |-> PyNone, fields |-> <<>>],
     msg |-> msg, requests |-> requests]

\* result = {"id": ..., "fields": {...}}; return True, result
Trouve(row, requests) ==
    [ok |-> TRUE,
     data |-> [id |-> Get(row, "id", PyNone), fields |-> Without(row, "id")],
     msg |-> <<>>, requests |-> requests]

DossierFiltre(dossiers_filtres, requests) ==
    IF Len(dossiers_filtres.rows) = 0
    THEN Echec(<<"Aucun dossier trouve avec cet email.">>, requests)
    ELSE Trouve(RowToDict(dossiers_filtres, 1), requests)

DossierDansTable(email, fetch) ==
    IF fetch.raised
    THEN Echec(<<"Exception: ">> \o fetch.err, fetch.requests)
    ELSE IF ~InColumns(fetch.df, COL_EMAIL)
    THEN Echec(<<"La colonne usager_email n'existe pas dans la table des dossiers">>,
               fetch.requests)
    ELSE DossierFiltre(FilterEq(fetch.df, COL_EMAIL, PyStr(email)), fetch.requests)

\* [ok, data, msg, requests]; data is [id, fields] on success
rechercher_dossier_par_email(email, doc_id, response) ==
    DossierDansTable(email, get_table_data(doc_id, GRIST_PROJETS_TABLE, response))

(***************************************************************************)
(* grist_connector.py: rechercher_annotations_par_id_dossier               *)
(***************************************************************************)
dossier_id_columns == <<"dossier_id", "projet_id", "id_dossier", "parentId">>

\* the first element of names that is in wanted, "" when there is none
FirstIn(names, wanted) ==
    IF \E i \in 1..Len(names) : names[i] \in wanted
    THEN names[CHOOSE i \in 1..Len(names) :
                   names[i] \in wanted /\ \A j \in 1..(i - 1) : names[j] \notin wanted]
    ELSE ""

ColumnSet(df) == {df.columns[j] : j \in 1..Len(df.columns)}

\* the first column holding the id in some row, "" when there is none
ColonneDevinee(df_annotations, dossier_id) ==
    IF Len(df_annotations.rows) > 0 /\ dossier_id.t # "none"
    THEN FirstIn(df_annotations.columns,
                 {col \in ColumnSet(df_annotations) :
                     AnyEq(df_annotations, col, dossier_id)})
    ELSE ""

\* the columns scanned before the known names are tried
FoundOr_GuessFirst(known, df_annotations, dossier_id) ==
    IF ColonneDevinee(df_annotations, dossier_id) # ""
    THEN ColonneDevinee(df_annotations, dossier_id)
    ELSE known

FoundOr(known, df_annotations, dossier_id) ==
    IF known # "" THEN known ELSE ColonneDevinee(df_annotations, dossier_id)

\* found_column: a known name that is a column, else the first column
\* holding the id in some row, else "" (None)
FoundColumn(df_annotations, dossier_id) ==
    FoundOr(FirstIn(dossier_id_columns, ColumnSet(df_annotations)),
            df_annotations, dossier_id)

AnnotationFiltree(annotations, requests) ==
    IF Len(annotations.rows) = 0
    THEN Echec(<<"Aucune annotation trouvee pour ce dossier">>, requests)
    ELSE Trouve(RowToDict(annotations, 1), requests)

AnnotationParColonne(found_column, dossier_id, fetch) ==
    IF found_column = ""
    THEN Echec(<<"Impossible de determiner la colonne de reference au dossier">>,
               fetch.requests)
    ELSE AnnotationFiltree(FilterEq(fetch.df, found_column, dossier_id), fetch.requests)

AnnotationDansTable(dossier_id, fetch) ==
    IF fetch.raised
    THEN Echec(<<"Exception: ">> \o fetch.err, fetch.requests)
    ELSE IF Len(fetch.df.rows) = 0
    THEN Echec(<<"Aucune donnee dans la table des annotations">>, fetch.requests)
    ELSE AnnotationParColonne(FoundColumn(fetch.df, dossier_id), dossier_id, fetch)

\* [ok, data, msg, requests]; data is [id, fields] on success
rechercher_annotations_par_id_dossier(dossier_id, doc_id, response) ==
    AnnotationDansTable(dossier_id,
                        get_table_data(doc_id, GRIST_ANNOTATIONS_TABLE, response))

(***************************************************************************)
(* grist_connector.py: valider_email_et_recuperer_donnees                  *)
(***************************************************************************)
\* the default of montant_drac / montant_draaf
DefaultMontant == <<"0">>

\* the email copied from the remote row
EmailOfRecord_FromRow(email, dossier_fields) ==
    Get(dossier_fields, "Email", PyStr(email)).s

\* the value stored under "Email"
EmailOfRecord(email, dossier_fields) == email

\* montant_drac / montant_draaf once the annotations were searched
MontantTrouve(annot, col) ==
    IF annot.ok
    THEN PyStrOf(Get(annot.data.fields, col, PyStr(DefaultMontant)))
    ELSE DefaultMontant

\* combined_data
Combiner(email, dossier_fields, annot) ==
    <<[k |-> "Nom", v |-> Get(dossier_fields, COL_NOM, PyStr(<<>>))],
      [k |-> "Email", v |-> PyStr(EmailOfRecord(email, dossier_fields))],
      [k |-> "Titre_du_projet", v |-> Get(dossier_fields, COL_TITRE_PROJET, PyStr(<<>>))],
      [k |-> "Numero_dossier",
       v |-> Get(dossier_fields, "N_dossier",
                 Get(dossier_fields, COL_NUMERO_DOSSIER, PyStr(<<>>)))],
      [k |-> "Montant_DRAC", v |-> PyStr(MontantTrouve(annot, COL_MONTANT_DRAC))],
      [k |-> "Montant_DRAAF", v |-> PyStr(MontantTrouve(annot, COL_MONTANT_DRAAF))]>>

AvecAnnotations(email, dossier, annot) ==
    [ok |-> TRUE, data |-> Combiner(email, dossier.data.fields, annot),
     msg |-> <<>>, requests |-> dossier.requests \o annot.requests]

\* the annotations searched whether a case was found or not
AvecDossier_ToujoursAnnoter(email, doc_id, annotations_response, dossier) ==
    [AvecAnnotations(email, dossier,
         rechercher_annotations_par_id_dossier(dossier.data.id, doc_id,
                                               annotations_response))
     EXCEPT !.ok = dossier.ok,
            !.data = IF dossier.ok THEN @ ELSE <<>>,
            !.msg = dossier.msg]

AvecDossier(email, doc_id, annotations_response, dossier) ==
    IF ~dossier.ok
    THEN [ok |-> FALSE, data |-> <<>>, msg |-> dossier.msg,
          requests |-> dossier.requests]
    ELSE AvecAnnotations(email, dossier,
             rechercher_annotations_par_id_dossier(dossier.data.id, doc_id,
                                                   annotations_response))

\* [ok, data, msg, requests]; data is the combined dict on success
valider_email_et_recuperer_donnees(email, doc_id, dossiers_response, annotations_response) ==
    AvecDossier(email, doc_id, annotations_response,
                rechercher_dossier_par_email(email, doc_id, dossiers_response))

(***************************************************************************)
(* app.py: verifier_champs_obligatoires                                    *)
(***************************************************************************)
\* the test deciding that a parsed amount is reported as missing
MontantManquant(montant) == montant <= 0

\* [raised, champs]: raised when an int() of the function raises
verifier_champs_obligatoires(fd) ==
    LET email == Get(fd, "Email", PyStr(<<>>))
        montant_drac == PyIntOf(Get(fd, "Montant_DRAC", PyInt(0)))
        montant_draaf == PyIntOf(Get(fd, "Montant_DRAAF", PyInt(0)))
        champs_email ==
            IF ~Truthy(email) THEN <<"Email">>
            ELSE IF ~is_valid_email(email.s) THEN <<"Email (format invalide)">>
            ELSE <<>>
        champs_titre ==
            IF ~Truthy(Get(fd, "Titre_du_projet", PyStr(<<>>)))
            THEN <<"Titre du projet">> ELSE <<>>
        champs_numero ==
            IF ~Truthy(Get(fd, "Numero_dossier", PyStr(<<>>)))
            THEN <<"Numero de dossier">> ELSE <<>>
    IN IF montant_drac.raised \/ montant_draaf.raised
       THEN [raised |-> TRUE, champs |-> <<>>]
       ELSE [raised |-> FALSE,
             champs |-> champs_email \o champs_titre \o champs_numero
                        \o (IF MontantManquant(montant_drac.n)
                            THEN <<"Montant DRAC">> ELSE <<>>)
                        \o (IF MontantManquant(montant_draaf.n)
                            THEN <<"Montant DRAAF">> ELSE <<>>)]

(***************************************************************************)
(* ds_prefiller.py                                                         *)
(***************************************************************************)
DEFAULT_DEMARCHE_ID == "111570"

FIELD_MAPPING ==
    <<[k |-> "Titre_du_projet", v |-> "Q2hhbXAtNjIyMzQw"],
      [k |-> "Numero_dossier", v |-> "Q2hhbXAtNjA3OTQ3"],
      [k |-> "Montant_DRAC", v |-> "Q2hhbXAtNDA3NDExMQ"],
      [k |-> "Montant_DRAAF", v |-> "Q2hhbXAtNDA3NDExMg"],
      [k |-> "Nom", v |-> "Q2hhbXAtNjA3OTcy"],
      [k |-> "Email", v |-> "Q2hhbXAtNjA3OTc1"]>>

\* the value stored as it is
MappedValue_Raw(value) == value

\* str(value)
MappedValue(value) == PyStr(PyStrOf(value))

RECURSIVE map_data(_)
map_data(data_dict) ==
    IF data_dict = <<>> THEN <<>>
    ELSE LET rest == map_data(SubSeq(data_dict, 1, Len(data_dict) - 1))
             item == data_dict[Len(data_dict)]
         IN IF Has(FIELD_MAPPING, item.k)
            THEN Put(rest, "champ_" \o Get(FIELD_MAPPING, item.k, ""),
                     MappedValue(item.v))
            ELSE rest

\* the token check dropped
TokenMissing_Never(token) == FALSE

\* "if not API_TOKEN": the token is None or empty
TokenMissing(token) == token = ""

\* any 2xx of the catalogue taken for a creation
IsCreated_AnySuccess(status) == status \in {200, 201}

\* the status test of the success branch
IsCreated(status) == status = 201

\* [ok, data, msg, requests]: data is the URL value on success, requests
\* the POSTs sent; the body of an answer is [isObject, fields]
generate_prefilled_url(data_dict, demarche_id, token, response) ==
    LET api_url == "https://www.demarches-simplifiees.fr/api/public/v1/demarches/"
                   \o demarche_id \o "/dossiers"
        mapped_data == map_data(data_dict)
        post == <<[url |-> api_url, json |-> mapped_data]>>
    IN IF TokenMissing(token)
       THEN [ok |-> FALSE, data |-> PyNone,
             msg |-> <<"Token API non trouve. Verifiez votre fichier .env">>,
             requests |-> <<>>]
       ELSE IF response.raises
       THEN [ok |-> FALSE, data |-> PyNone,
             msg |-> <<"Exception: ", response.text>>, requests |-> post]
       ELSE IF IsCreated(response.status)
       THEN IF ~response.json
            THEN [ok |-> FALSE, data |-> PyNone,
                  msg |-> <<"Exception: ", "JSONDecodeError">>, requests |-> post]
            ELSE IF ~response.body.isObject
            THEN [ok |-> FALSE, data |-> PyNone,
                  msg |-> <<"Exception: ", "AttributeError">>, requests |-> post]
            ELSE [ok |-> TRUE,
                  data |-> Get(response.body.fields, "dossier_url", PyStr(<<>>)),
                  msg |-> <<>>, requests |-> post]
       ELSE [ok |-> FALSE, data |-> PyNone,
             msg |-> <<"Erreur API DS: ", response.text>>, requests |-> post]

(***************************************************************************)
(* app.py: the enabling of the "Generer le dossier" button                 *)
(***************************************************************************)
\* the button never disabled
bouton_disabled_Never(champs_manquants, success) == FALSE

bouton_disabled(champs_manquants, success) == Len(champs_manquants) > 0 /\ ~success

\* demarche_id = os.getenv("DEMARCHE_ID", "111570")
demarche_id == "111570"

(***************************************************************************)
(* The remote services and the inputs, drawn from bounded sets             *)
(***************************************************************************)
MaxDossiers == 2

MaxAnnotations == 2

EmailA == <<"a", "@", "b", ".", "f", "r">>

EmailB == <<"c", "@", "d", ".", "f", "r">>

Emails == {EmailA, EmailB}

\* what the user may type in the search box
EmailInputs == Emails \cup {<<>>, <<"a", "@", "b">>}

DocIds == {"", "doc"}

Tokens == {"", "tok"}

F(key, val) == [k |-> key, v |-> val]

Rec(id, fields) == [hasFields |-> TRUE, fields |-> fields, hasId |-> TRUE, id |-> PyInt(id)]

DossierRecords ==
    { Rec(7, <<F(COL_EMAIL, PyStr(EmailA)), F(COL_NOM, PyStr(<<"n">>)),
               F(COL_TITRE_PROJET, PyStr(<<"t">>)), F("N_dossier", PyStr(<<"D", "1">>)),
               F("Email", PyStr(EmailB))>>),
      Rec(8, <<F(COL_EMAIL, PyStr(EmailA)), F(COL_TITRE_PROJET, PyStr(<<"u">>)),
               F(COL_NUMERO_DOSSIER, PyInt(12))>>),
      Rec(9, <<F(COL_EMAIL, PyStr(EmailB))>>),
      Rec(7, <<F(COL_NOM, PyStr(<<"n">>))>>),
      [hasFields |-> FALSE, fields |-> <<>>, hasId |-> TRUE, id |-> PyInt(5)] }

AnnotationRecords ==
    { Rec(3, <<F("dossier_id", PyInt(7)), F(COL_MONTANT_DRAC, PyInt(1000)),
               F(COL_MONTANT_DRAAF, PyInt(500))>>),
      Rec(4, <<F("dossier_id", PyInt(8)), F(COL_MONTANT_DRAC, PyFloat(1000, 1)),
               F(COL_MONTANT_DRAAF, PyNone)>>),
      Rec(7, <<F(COL_MONTANT_DRAC, PyStr(<<"a", "b", "c">>)),
               F(COL_MONTANT_DRAAF, PyInt(0))>>),
      Rec(5, <<F("parentId", PyInt(7)), F(COL_MONTANT_DRAC, PyInt(0 - 5))>>),
      Rec(6, <<F("projet_id", PyInt(7))>>),
      Rec(1, <<F("ref", PyInt(8)), F(COL_MONTANT_DRAC, PyInt(20)),
               F(COL_MONTANT_DRAAF, PyInt(30))>>),
      Rec(2, <<F("dossier_id", PyInt(9)), F(COL_MONTANT_DRAC, PyInt(250)),
               F(COL_MONTANT_DRAAF, PyInt(40)), F("note", PyStr(<<"x">>))>>) }

SeqsUpTo(S, n) == UNION {[1..m -> S] : m \in 0..n}

NoBody == [hasRecords |-> FALSE, records |-> <<>>]

TableAnswer(records) ==
    [raises |-> FALSE, status |-> 200, json |-> TRUE, text |-> "records",
     body |-> [hasRecords |-> TRUE, records |-> records]]

FailedAnswers ==
    { [raises |-> TRUE, status |-> 0, json |-> FALSE, text |-> "ConnectionError", body |-> NoBody],
      [raises |-> FALSE, status |-> 500, json |-> FALSE, text |-> "boom", body |-> NoBody],
      [raises |-> FALSE, status |-> 200, json |-> FALSE, text |-> "<html>", body |-> NoBody],
      [raises |-> FALSE, status |-> 200, json |-> TRUE, text |-> "{}", body |-> NoBody] }

\* the client sends no request without a document id: the answers it would
\* get are drawn from the failures and the empty table only
Unread == FailedAnswers \cup {TableAnswer(<<>>)}

DossiersAnswers(doc_id) ==
    IF doc_id = "" THEN Unread
    ELSE {TableAnswer(r) : r \in SeqsUpTo(DossierRecords, MaxDossiers)} \cup FailedAnswers

AnnotationsAnswers(doc_id) ==
    IF doc_id = "" THEN Unread
    ELSE {TableAnswer(r) : r \in SeqsUpTo(AnnotationRecords, MaxAnnotations)}
         \cup FailedAnswers

\* the listings a server may hold under a key, or return bare
Listings == {JList(items) : items \in SeqsUpTo({JLeaf("t1"), JLeaf("t2")}, 1)}

\* the values an object may hold under a key: absent, a listing, a leaf
Held == {JLeaf("")} \cup Listings \cup {JLeaf("x")}

\* the entry of an object under key, none when absent
EntryOf(key, held) == IF held = JLeaf("") THEN <<>> ELSE <<[k |-> key, v |-> held]>>

ListingBodies ==
    Listings \cup {JList(<<JLeaf("t1"), JLeaf("t2")>>), JLeaf("7")} \cup
    { JObject(EntryOf("id", i) \o EntryOf("tables", t) \o EntryOf("docs", d)) :
        i \in {JLeaf(""), JLeaf("x")}, t \in Held, d \in Held }

ListingAnswer(body) ==
    [raises |-> FALSE, status |-> 200, json |-> TRUE, text |-> "listing", body |-> body]

ListingAnswers ==
    {ListingAnswer(b) : b \in ListingBodies} \cup
    { [raises |-> TRUE, status |-> 0, json |-> FALSE, text |-> "ConnectionError",
       body |-> JLeaf("")],
      [raises |-> FALSE, status |-> 500, json |-> FALSE, text |-> "boom",
       body |-> JLeaf("")],
      [raises |-> FALSE, status |-> 200, json |-> FALSE, text |-> "<html>",
       body |-> JLeaf("")] }

\* the annotation rows of a lookup: those above and a second row of case 7
LookupRecords ==
    AnnotationRecords \cup
    { Rec(10, <<F("dossier_id", PyInt(7)), F(COL_MONTANT_DRAC, PyInt(1))>>) }

LookupAnswers(doc_id) ==
    IF doc_id = "" THEN Unread
    ELSE {TableAnswer(r) : r \in SeqsUpTo(LookupRecords, MaxAnnotations)}
         \cup FailedAnswers

\* the identifiers a case row may carry: ints, an int read back from a
\* float64 row, None and NaN
LookupIds == {PyInt(7), PyInt(8), PyInt(6), PyFloat(7, 0), PyNone, PyNaN}

UrlXY == <<"h", "t", "t", "p", "s", ":", "/", "/", "x", "/", "y">>

PrefillBody(fields) == [isObject |-> TRUE, fields |-> fields]

PrefillAnswers ==
    { [raises |-> TRUE, status |-> 0, json |-> FALSE, text |-> "ConnectionError",
       body |-> PrefillBody(<<>>)],
      [raises |-> FALSE, status |-> 201, json |-> TRUE, text |-> "created",
       body |-> PrefillBody(<<F("dossier_url", PyStr(UrlXY))>>)],
      [raises |-> FALSE, status |-> 201, json |-> TRUE, text |-> "created",
       body |-> PrefillBody(<<F("dossier_id", PyStr(<<"9">>))>>)],
      [raises |-> FALSE, status |-> 201, json |-> FALSE, text |-> "<html>",
       body |-> PrefillBody(<<>>)],
      [raises |-> FALSE, status |-> 201, json |-> TRUE, text |-> "[]",
       body |-> [isObject |-> FALSE, fields |-> <<>>]],
      [raises |-> FALSE, status |-> 200, json |-> TRUE, text |-> "ok",
       body |-> PrefillBody(<<F("dossier_url", PyStr(UrlXY))>>)],
      [raises |-> FALSE, status |-> 422, json |-> TRUE, text |-> "unprocessable",
       body |-> PrefillBody(<<F("errors", PyStr(<<"e">>))>>)] }

\* the strings a session record may hold as an amount
MontantStrings ==
    { <<"0">>, <<"1", "0", "0", "0">>, <<"-", "5">>, <<"1", "0", "0", "0", ".", "0">>,
      <<"n", "a", "n">>, <<"N", "o", "n", "e">>, <<" ", "1", "_", "0", " ">> }

FormRecord(nom, email, titre, numero, drac, draaf) ==
    <<F("Nom", nom), F("Email", PyStr(email)), F("Titre_du_projet", titre),
      F("Numero_dossier", numero), F("Montant_DRAC", PyStr(drac)),
      F("Montant_DRAAF", PyStr(draaf))>>

\* the records verifier_champs_obligatoires is applied to: the empty dict
\* of a fresh session and dicts of the shape the resolution builds
FormRecords ==
    {<<>>} \cup
    { FormRecord(nom, email, titre, numero, drac, draaf) :
        nom \in {PyStr(<<>>), PyStr(<<"n">>)},
        email \in EmailInputs,
        titre \in {PyStr(<<>>), PyStr(<<"t">>), PyNaN},
        numero \in {PyStr(<<>>), PyStr(<<"D", "1">>), PyInt(12)},
        drac \in MontantStrings,
        draaf \in MontantStrings }

PrefillRecords ==
    { <<>>,
      FormRecord(PyStr(<<"n">>), EmailA, PyStr(<<"t">>), PyStr(<<"D", "1">>),
                 <<"1", "0", "0", "0">>, <<"5", "0", "0">>),
      FormRecord(PyStr(<<>>), EmailB, PyNaN, PyInt(12), <<"2", "0">>, <<"3", "0">>),
      <<F("Email", PyStr(EmailA)), F("Autre", PyInt(1))>> }

MaxFields == 2

MaxCalls == 2

\* the dicts map_data is applied to: up to MaxFields entries under distinct
\* keys, mapped or not, holding values of every type, and the session's
\* records
MapRecords ==
    PrefillRecords \cup
    { d \in SeqsUpTo([k : {"Nom", "Email", "Montant_DRAC", "Autre"},
                      v : {PyStr(<<"n">>), PyInt(12), PyFloat(1000, 1), PyNaN}],
                     MaxFields) :
        \A i, j \in 1..Len(d) : d[i].k = d[j].k => i = j }

(***************************************************************************)
(* State                                                                   *)
(***************************************************************************)
VARIABLES
    API_TOKEN,          \* ds_prefiller.API_TOKEN ("" when unset)
    GRIST_DOC_ID,       \* grist_connector.GRIST_DOC_ID ("" when unset)
    form_data,          \* st.session_state.form_data
    grist_data_loaded,  \* st.session_state.grist_data_loaded
    generate_success,   \* st.session_state.generate_success
    dossier_url,        \* st.session_state.dossier_url
    op,                 \* the last operation run ("none" before the first)
    args,               \* its arguments
    ret                 \* what it returned

vars == <<API_TOKEN, GRIST_DOC_ID, form_data, grist_data_loaded,
          generate_success, dossier_url, op, args, ret>>

NoArgs == [none |-> TRUE]

NoRet == [ok |-> FALSE, data |-> <<>>, msg |-> <<>>, requests |-> <<>>]

\* main(): the session variables as first initialised
SessionInit ==
    /\ form_data = <<>>
    /\ grist_data_loaded = FALSE
    /\ generate_success = FALSE
    /\ dossier_url = PyStr(<<>>)

(***************************************************************************)
(* SpecResolve: one call of valider_email_et_recuperer_donnees             *)
(***************************************************************************)
InitResolve ==
    /\ API_TOKEN = "tok"
    /\ GRIST_DOC_ID \in DocIds
    /\ SessionInit
    /\ op = "none"
    /\ args \in [email : Emails, dossiers : DossiersAnswers(GRIST_DOC_ID),
                 annotations : AnnotationsAnswers(GRIST_DOC_ID)]
    /\ ret = NoRet

Resolve ==
    /\ op = "none"
    /\ op' = "resolve"
    /\ ret' = valider_email_et_recuperer_donnees(args.email, GRIST_DOC_ID,
                                                 args.dossiers, args.annotations)
    /\ UNCHANGED <<API_TOKEN, GRIST_DOC_ID, form_data, grist_data_loaded,
                   generate_success, dossier_url, args>>

NextResolve == Resolve

SpecResolve == InitResolve /\ [][NextResolve]_vars

(***************************************************************************)
(* SpecVerify: one call of verifier_champs_obligatoires on the session's   *)
(* form_data                                                               *)
(***************************************************************************)
InitVerify ==
    /\ API_TOKEN = "tok"
    /\ GRIST_DOC_ID = "doc"
    /\ form_data \in FormRecords
    /\ grist_data_loaded = (form_data # <<>>)
    /\ generate_success = FALSE
    /\ dossier_url = PyStr(<<>>)
    /\ op = "none"
    /\ args = NoArgs
    /\ ret = NoRet

Verify ==
    /\ op = "none"
    /\ op' = "verify"
    /\ ret' = verifier_champs_obligatoires(form_data)
    /\ UNCHANGED <<API_TOKEN, GRIST_DOC_ID, form_data, grist_data_loaded,
                   generate_success, dossier_url, args>>

NextVerify == Verify

SpecVerify == InitVerify /\ [][NextVerify]_vars

(***************************************************************************)
(* SpecPrefill: one call of generate_prefilled_url                         *)
(***************************************************************************)
InitPrefill ==
    /\ API_TOKEN \in Tokens
    /\ GRIST_DOC_ID = "doc"
    /\ SessionInit
    /\ op = "none"
    /\ args \in [data_dict : PrefillRecords,
                 demarche_id : {DEFAULT_DEMARCHE_ID, "42"},
                 response : PrefillAnswers]
    /\ ret = NoRet

Prefill ==
    /\ op = "none"
    /\ op' = "prefill"
    /\ ret' = generate_prefilled_url(args.data_dict, args.demarche_id,
                                     API_TOKEN, args.response)
    /\ UNCHANGED <<API_TOKEN, GRIST_DOC_ID, form_data, grist_data_loaded,
                   generate_success, dossier_url, args>>

NextPrefill == Prefill

SpecPrefill == InitPrefill /\ [][NextPrefill]_vars

(***************************************************************************)
(* SpecMap: successive calls of map_data on one dict; ret lists what the   *)
(* calls returned                                                          *)
(***************************************************************************)
InitMap ==
    /\ API_TOKEN = "tok"
    /\ GRIST_DOC_ID = "doc"
    /\ SessionInit
    /\ op = "none"
    /\ args \in [data_dict : MapRecords]
    /\ ret = <<>>

Map ==
    /\ Len(ret) < MaxCalls
    /\ op' = "map"
    /\ ret' = Append(ret, map_data(args.data_dict))
    /\ UNCHANGED <<API_TOKEN, GRIST_DOC_ID, form_data, grist_data_loaded,
                   generate_success, dossier_url, args>>

NextMap == Map

SpecMap == InitMap /\ [][NextMap]_vars

(***************************************************************************)
(* SpecFetch: one call of GristClient.get_table_data                       *)
(***************************************************************************)
InitFetch ==
    /\ API_TOKEN = "tok"
    /\ GRIST_DOC_ID \in DocIds
    /\ SessionInit
    /\ op = "none"
    /\ args \in [table_id : {GRIST_PROJETS_TABLE},
                 response : DossiersAnswers(GRIST_DOC_ID)]
          \cup [table_id : {GRIST_ANNOTATIONS_TABLE},
                 response : AnnotationsAnswers(GRIST_DOC_ID)]
    /\ ret = NoRet

Fetch ==
    /\ op = "none"
    /\ op' = "fetch"
    /\ ret' = get_table_data(GRIST_DOC_ID, args.table_id, args.response)
    /\ UNCHANGED <<API_TOKEN, GRIST_DOC_ID, form_data, grist_data_loaded,
                   generate_success, dossier_url, args>>

NextFetch == Fetch

SpecFetch == InitFetch /\ [][NextFetch]_vars

(***************************************************************************)
(* SpecLookup: one call of rechercher_annotations_par_id_dossier           *)
(***************************************************************************)
InitLookup ==
    /\ API_TOKEN = "tok"
    /\ GRIST_DOC_ID \in DocIds
    /\ SessionInit
    /\ op = "none"
    /\ args \in [dossier_id : LookupIds, response : LookupAnswers(GRIST_DOC_ID)]
    /\ ret = NoRet

Lookup ==
    /\ op = "none"
    /\ op' = "lookup"
    /\ ret' = rechercher_annotations_par_id_dossier(args.dossier_id, GRIST_DOC_ID,
                                                    args.response)
    /\ UNCHANGED <<API_TOKEN, GRIST_DOC_ID, form_data, grist_data_loaded,
                   generate_success, dossier_url, args>>

NextLookup == Lookup

SpecLookup == InitLookup /\ [][NextLookup]_vars

(***************************************************************************)
(* SpecList: one call of GristClient.list_tables or list_documents         *)
(***************************************************************************)
InitList ==
    /\ API_TOKEN = "tok"
    /\ GRIST_DOC_ID \in DocIds
    /\ SessionInit
    /\ op = "none"
    /\ args \in [response : ListingAnswers]
    /\ ret = NoRet

ListTables ==
    /\ op = "none"
    /\ op' = "list_tables"
    /\ ret' = list_tables(GRIST_DOC_ID, args.response)
    /\ UNCHANGED <<API_TOKEN, GRIST_DOC_ID, form_data, grist_data_loaded,
                   generate_success, dossier_url, args>>

ListDocuments ==
    /\ op = "none"
    /\ op' = "list_documents"
    /\ ret' = list_documents(args.response)
    /\ UNCHANGED <<API_TOKEN, GRIST_DOC_ID, form_data, grist_data_loaded,
                   generate_success, dossier_url, args>>

NextList == ListTables \/ ListDocuments

SpecList == InitList /\ [][NextList]_vars

(***************************************************************************)
(* Spec: one Streamlit session of app.py; every action is one run of the   *)
(* script triggered by a button                                            *)
(***************************************************************************)
\* what the first step of a search may get back from Grist
SearchedDossiers(d) ==
    { [email |-> e, dossier |-> rechercher_dossier_par_email(e, d, da)] :
        e \in Emails, da \in DossiersAnswers(d) }

\* what a search may get back from Grist, for each document id: the
\* results of valider_email_et_recuperer_donnees, its second step applied
\* to each outcome of the first
SearchResults ==
    [d \in DocIds |->
        { [email |-> found.email,
           result |-> AvecDossier(found.email, d, aa, found.dossier)] :
            found \in SearchedDossiers(d), aa \in AnnotationsAnswers(d) }]

Init ==
    /\ API_TOKEN \in Tokens
    /\ GRIST_DOC_ID \in DocIds
    /\ SessionInit
    /\ op = "none"
    /\ args = NoArgs
    /\ ret = NoRet

\* "Recuperer les donnees vous concernant" with an empty or malformed email
SearchRejected ==
    \E email_recherche \in EmailInputs :
        /\ email_recherche = <<>> \/ ~is_valid_email(email_recherche)
        /\ op' = "search"
        /\ args' = [email_recherche |-> email_recherche]
        /\ ret' = NoRet
        /\ UNCHANGED <<API_TOKEN, GRIST_DOC_ID, form_data, grist_data_loaded,
                       generate_success, dossier_url>>

\* the result stored whether the search succeeded or not
StoredRecord_Always(success, result, held) == result

\* st.session_state.form_data after "if success: ... form_data = result"
StoredRecord(success, result, held) == IF success THEN result ELSE held

\* "Recuperer les donnees vous concernant" with a well-formed email
Search ==
    \E found \in SearchResults[GRIST_DOC_ID] :
        /\ found.email # <<>> /\ is_valid_email(found.email)
        /\ op' = "search"
        /\ args' = [email_recherche |-> found.email]
        /\ ret' = found.result
        /\ form_data' = StoredRecord(found.result.ok, found.result.data, form_data)
        /\ grist_data_loaded' = (found.result.ok \/ grist_data_loaded)
        /\ UNCHANGED <<API_TOKEN, GRIST_DOC_ID, generate_success, dossier_url>>

\* "Generer le dossier bilan Drac Draaf": the button is drawn by
\* afficher_resultat when no link is shown, and can be clicked when enabled
Generate ==
    LET champs_manquants == verifier_champs_obligatoires(form_data)
    IN /\ ~champs_manquants.raised
       /\ ~generate_success
       /\ ~bouton_disabled(champs_manquants.champs, generate_success)
       /\ \E response \in PrefillAnswers :
            LET result == generate_prefilled_url(form_data, demarche_id,
                                                 API_TOKEN, response)
            IN /\ op' = "generate"
               /\ args' = [data_dict |-> form_data]
               /\ ret' = result
               /\ IF result.ok
                  THEN /\ generate_success' = TRUE
                       /\ dossier_url' = result.data
                  ELSE UNCHANGED <<generate_success, dossier_url>>
       /\ UNCHANGED <<API_TOKEN, GRIST_DOC_ID, form_data, grist_data_loaded>>

\* "Generer un nouveau lien": drawn by afficher_resultat when a link is shown
NewLink ==
    /\ ~verifier_champs_obligatoires(form_data).raised
    /\ generate_success
    /\ generate_success' = FALSE
    /\ dossier_url' = PyStr(<<>>)
    /\ op' = "new_link"
    /\ args' = NoArgs
    /\ ret' = NoRet
    /\ UNCHANGED <<API_TOKEN, GRIST_DOC_ID, form_data, grist_data_loaded>>

Next == SearchRejected \/ Search \/ Generate \/ NewLink

Spec == Init /\ [][Next]_vars

(***************************************************************************)
(* Vocabulary of the properties, stated on the raw answers of the services *)
(***************************************************************************)
\* the answer carries a table: 200, a JSON body, a records collection
IsTable(answer) ==
    ~answer.raises /\ answer.status = 200 /\ answer.json /\ answer.body.hasRecords

\* the fetch of that answer fails in the client
FetchFails(answer) == GRIST_DOC_ID = "" \/ ~IsTable(answer)

\* positions of the case records whose email field is the email
CasesWithEmail(records, email) ==
    { i \in 1..Len(records) :
        /\ records[i].hasFields
        /\ Has(records[i].fields, COL_EMAIL)
        /\ Get(records[i].fields, COL_EMAIL, PyNone) = PyStr(email) }

\* the earliest case record with that email
FirstCase(records, email) ==
    records[CHOOSE i \in CasesWithEmail(records, email) :
                \A j \in CasesWithEmail(records, email) : i <= j]

IdOfRecord(record) == IF record.hasId THEN record.id ELSE PyNone

SameNumber(v, w) ==
    v.t \in {"int", "float"} /\ w.t \in {"int", "float"} /\ v.n = w.n /\ v.h = w.h

\* no annotation row refers to the identifier: in the first of the known
\* reference columns the table has, or, when it has none, in any column
NoRowReferences(records, id) ==
    LET rows == RowsOfRecords(records)
        known == { j \in 1..Len(dossier_id_columns) :
                     \E i \in 1..Len(rows) : Has(rows[i], dossier_id_columns[j]) }
        first == dossier_id_columns[CHOOSE j \in known : \A l \in known : j <= l]
    IN IF known # {}
       THEN \A i \in 1..Len(rows) : ~SameNumber(Get(rows[i], first, PyNone), id)
       ELSE \A i \in 1..Len(rows) : \A j \in 1..Len(rows[i]) :
                ~SameNumber(rows[i][j].v, id)

Montant(data, key) == Get(data, key, PyNone).s

IsNatString(str) == Len(str) > 0 /\ \A i \in 1..Len(str) : str[i] \in DigitSet

(***************************************************************************)
(* Properties of valider_email_et_recuperer_donnees (SpecResolve)          *)
(***************************************************************************)
ResolvedCaseWithoutAnnotation ==
    /\ op = "resolve"
    /\ GRIST_DOC_ID # ""
    /\ IsTable(args.dossiers)
    /\ IsTable(args.annotations)
    /\ CasesWithEmail(args.dossiers.body.records, args.email) # {}
    /\ NoRowReferences(args.annotations.body.records,
                       IdOfRecord(FirstCase(args.dossiers.body.records, args.email)))

C2_NoMatchIsNotFound ==
    ( /\ op = "resolve"
      /\ ~FetchFails(args.dossiers)
      /\ CasesWithEmail(args.dossiers.body.records, args.email) = {} )
    => /\ ~ret.ok
       /\ ret.msg = <<"Aucun dossier trouve avec cet email.">>

\* C3: a resolution in which a table fetch fails (the cases table, or the
\* annotations table once a case row was found) returns a failure.
C3_FailedFetchIsFailure ==
    ( /\ op = "resolve"
      /\ \/ FetchFails(args.dossiers)
         \/ /\ CasesWithEmail(args.dossiers.body.records, args.email) # {}
            /\ FetchFails(args.annotations) )
    => ~ret.ok

\* C4: the Email of a resolved record is the email searched for.
C4_EmailIsTheInput ==
    (op = "resolve" /\ ret.ok) => Get(ret.data, "Email", PyNone) = PyStr(args.email)

\* a record resolved from a row that holds another address in an Email field
C4_Witness ==
    /\ op = "resolve"
    /\ ret.ok
    /\ LET row == FirstCase(args.dossiers.body.records, args.email)
       IN Has(row.fields, "Email")
          /\ Get(row.fields, "Email", PyNone) # PyStr(args.email)

\* C5: the amounts of a resolved record are strings of decimal digits
\* (non-negative integers).
C5_AmountsAreNaturals ==
    (op = "resolve" /\ ret.ok) =>
        /\ IsNatString(Montant(ret.data, "Montant_DRAC"))
        /\ IsNatString(Montant(ret.data, "Montant_DRAAF"))

(***************************************************************************)
(* Properties of verifier_champs_obligatoires (SpecVerify)                 *)
(***************************************************************************)
\* an amount read leniently: 0 when absent or unparsable
MontantLu(fd, key) ==
    LET parsed == PyIntOf(Get(fd, key, PyInt(0)))
    IN IF parsed.raised THEN 0 ELSE parsed.n

\* one label per violated requirement, in the fixed order
LabelsAttendus(fd) ==
    LET email == Get(fd, "Email", PyStr(<<>>))
    IN (IF email.s = <<>> THEN <<"Email">>
        ELSE IF ~is_valid_email(email.s) THEN <<"Email (format invalide)">>
        ELSE <<>>)
       \o (IF Truthy(Get(fd, "Titre_du_projet", PyStr(<<>>)))
           THEN <<>> ELSE <<"Titre du projet">>)
       \o (IF Truthy(Get(fd, "Numero_dossier", PyStr(<<>>)))
           THEN <<>> ELSE <<"Numero de dossier">>)
       \o (IF MontantLu(fd, "Montant_DRAC") > 0 THEN <<>> ELSE <<"Montant DRAC">>)
       \o (IF MontantLu(fd, "Montant_DRAAF") > 0 THEN <<>> ELSE <<"Montant DRAAF">>)

\* C6: for every record the validation returns exactly the labels of the
\* violated requirements, in the order email, project title, case number,
\* DRAC amount, DRAAF amount.
C6_OneLabelPerViolation ==
    op = "verify" => (~ret.raised /\ ret.champs = LabelsAttendus(form_data))

\* C7: the validation never raises on an amount; an absent or unparsable
\* amount counts as 0 and an amount <= 0 is reported as missing.
C7_AmountParsingNeverRaises ==
    op = "verify" =>
        /\ ~ret.raised
        /\ (\E i \in 1..Len(ret.champs) : ret.champs[i] = "Montant DRAC")
               <=> MontantLu(form_data, "Montant_DRAC") <= 0
        /\ (\E i \in 1..Len(ret.champs) : ret.champs[i] = "Montant DRAAF")
               <=> MontantLu(form_data, "Montant_DRAAF") <= 0

(***************************************************************************)
(* Properties of the session (Spec)                                        *)
(***************************************************************************)
\* C8: the prefill is called only on a form_data the validation finds
\* complete, hence never before a search has succeeded in the session.
C8_PrefillOnlyWhenComplete ==
    op = "generate" =>
        /\ args.data_dict = form_data
        /\ ~verifier_champs_obligatoires(form_data).raised
        /\ verifier_champs_obligatoires(form_data).champs = <<>>
        /\ grist_data_loaded

\* a prefill request was sent for the record of the session
C8_Witness == op = "generate" /\ Len(ret.requests) = 1

(***************************************************************************)
(* Properties of generate_prefilled_url (SpecPrefill)                      *)
(***************************************************************************)
PrefillFailsWith(prefix, text) == ~ret.ok /\ ret.msg = <<prefix, text>>

\* C9 as claimed: with a credential, success if and only if the status is
\* 201, the result being dossier_url or "" on 201, the body text on another
\* status, the exception text on a transport exception.
C9_SuccessIffCreated ==
    (op = "prefill" /\ API_TOKEN # "") =>
        IF args.response.raises
        THEN PrefillFailsWith("Exception: ", args.response.text)
        ELSE IF args.response.status = 201
        THEN /\ ret.ok
             /\ ret.data = Get(args.response.body.fields, "dossier_url", PyStr(<<>>))
        ELSE PrefillFailsWith("Erreur API DS: ", args.response.text)

\* the body of the answer reads as a JSON object
ReadableBody(response) == response.json /\ response.body.isObject

\* C9 as amended: with a credential, success if and only if the status is
\* 201 and the body reads as a JSON object; a 201 whose body does not is a
\* failure carrying the exception text.
C9_SuccessIffCreatedAndReadable ==
    (op = "prefill" /\ API_TOKEN # "") =>
        IF args.response.raises
        THEN PrefillFailsWith("Exception: ", args.response.text)
        ELSE IF args.response.status = 201 /\ ReadableBody(args.response)
        THEN /\ ret.ok
             /\ ret.data = Get(args.response.body.fields, "dossier_url", PyStr(<<>>))
        ELSE IF args.response.status = 201
        THEN ~ret.ok /\ Len(ret.msg) = 2 /\ ret.msg[1] = "Exception: "
        ELSE PrefillFailsWith("Erreur API DS: ", args.response.text)

\* a 201 without dossier_url gave the empty string, as a success
C9_Witness ==
    /\ op = "prefill"
    /\ API_TOKEN # ""
    /\ args.response.status = 201
    /\ ~Has(args.response.body.fields, "dossier_url")
    /\ ret.ok
    /\ ret.data = PyStr(<<>>)

\* C10: without a credential the call fails with the MissingCredential
\* message and sends no request.
C10_NoCredentialNoRequest ==
    (op = "prefill" /\ API_TOKEN = "") =>
        /\ ~ret.ok
        /\ ret.msg = <<"Token API non trouve. Verifiez votre fichier .env">>
        /\ ret.requests = <<>>

\* a call without credential that the service would have answered with 201
C10_Witness ==
    /\ op = "prefill"
    /\ API_TOKEN = ""
    /\ args.response.status = 201
    /\ args.data_dict # <<>>

(***************************************************************************)
(* Properties of map_data (SpecMap)                                        *)
(***************************************************************************)
\* the key an entry of the record is sent under
ChampOf(key) == "champ_" \o Get(FIELD_MAPPING, key, "")

\* out holds one entry per mapped key of d, valued str(v), and no other
MapsExactly(d, out) ==
    /\ \A i \in 1..Len(d) :
           Has(FIELD_MAPPING, d[i].k) =>
               /\ Cardinality({j \in 1..Len(out) : out[j].k = ChampOf(d[i].k)}) = 1
               /\ Get(out, ChampOf(d[i].k), PyNone) = PyStr(PyStrOf(d[i].v))
    /\ \A j \in 1..Len(out) :
           \E i \in 1..Len(d) :
               Has(FIELD_MAPPING, d[i].k) /\ out[j].k = ChampOf(d[i].k)

\* six names mapped to six pairwise distinct identifiers
MappingIsBijective ==
    /\ Len(FIELD_MAPPING) = 6
    /\ \A i, j \in 1..Len(FIELD_MAPPING) :
           (FIELD_MAPPING[i].k = FIELD_MAPPING[j].k
            \/ FIELD_MAPPING[i].v = FIELD_MAPPING[j].v) => i = j

RowMirrors(row, record) ==
    /\ \A j \in 1..Len(record.fields) :
           Has(row, record.fields[j].k)
           /\ Get(row, record.fields[j].k, PyNone) = record.fields[j].v
    /\ Has(row, "id")
    /\ Get(row, "id", PyNone) = IdOfRecord(record)

\* C12: a successful fetch of records r1..rn returns n rows in that order,
\* row i holding every field of ri unchanged and the identifier of ri.
C12_RowsMirrorRecords ==
    (op = "fetch" /\ ~FetchFails(args.response)) =>
        /\ ~ret.raised
        /\ Len(ret.df.rows) = Len(args.response.body.records)
        /\ \A i \in 1..Len(ret.df.rows) :
               RowMirrors(ret.df.rows[i], args.response.body.records[i])

\* the answer is a 200 whose body parses
ListingParses(answer) == ~answer.raises /\ answer.status = 200 /\ answer.json

\* C13: on a 200 whose body parses, list_tables returns the body when it
\* is a list, the value under tables when it is an object holding that key,
\* and otherwise, for an object, a list of the body alone (or the value
\* under docs); it does not fail on an object or a list.
C13_ListTablesNormalises ==
    ( /\ op = "list_tables"
      /\ GRIST_DOC_ID # ""
      /\ ListingParses(args.response)
      /\ args.response.body.kind \in {"list", "object"} )
    => /\ ~ret.raised
       /\ LET data == args.response.body
          IN IF data.kind = "list" THEN ret.value = data
             ELSE IF Has(data.entries, "tables")
             THEN ret.value = Get(data.entries, "tables", JLeaf(""))
             ELSE \/ ret.value = JList(<<data>>)
                  \/ /\ Has(data.entries, "docs")
                     /\ ret.value = Get(data.entries, "docs", JLeaf(""))

(***************************************************************************)
(* Properties of the session's record and link (Spec)                      *)
(***************************************************************************)
\* C14: a search or a "new link" run with a record held leaves the session
\* with the record the search found, or with none.
C14_RecordReplacedOrDiscarded ==
    [][ (op' \in {"search", "new_link"} /\ form_data # <<>>) =>
            IF op' = "search" /\ ret'.ok
            THEN form_data' = ret'.data
            ELSE form_data' = <<>> ]_vars

\* some search can be triggered
CanSearch == ENABLED (SearchRejected \/ Search)

\* C17: a search or a link generation that fails leaves form_data,
\* grist_data_loaded, generate_success and dossier_url as they were, and a
\* search can be triggered in every state.
C17_FailureChangesNothing ==
    /\ [][ (op' \in {"search", "generate"} /\ ~ret'.ok) =>
               UNCHANGED <<form_data, grist_data_loaded, generate_success,
                           dossier_url>> ]_vars
    /\ []CanSearch

\* a search failed in Grist while the session held a record and a link
C17_Witness ==
    /\ op = "search"
    /\ ~ret.ok
    /\ Len(ret.requests) > 0
    /\ form_data # <<>>
    /\ generate_success
    /\ dossier_url = PyStr(UrlXY)

\* C20: a step that ends with a link displayed either generated that link
\* from the record held, or left the record as it was; hence the link
\* displayed is always the one generated for the record held.
C20_LinkMatchesRecord ==
    [][ generate_success' =>
            \/ /\ op' = "generate"
               /\ ret'.ok
               /\ args'.data_dict = form_data'
               /\ dossier_url' = ret'.data
            \/ /\ generate_success
               /\ form_data' = form_data
               /\ dossier_url' = dossier_url ]_vars

(***************************************************************************)
(* Properties of rechercher_annotations_par_id_dossier (SpecLookup)        *)
(***************************************************************************)
\* the fields some record of the table carries, the identifier included,
\* in order of first appearance
ColumnsOfRecords(records) == UnionKeys(RowsOfRecords(records), <<>>)

\* the value of the record under the column, the identifier under "id"
CellOfRecord(record, col) ==
    IF col = "id" THEN IdOfRecord(record) ELSE Get(record.fields, col, PyNone)

\* the record holds the identifier under the column
Refers(record, col, id) ==
    (col = "id" \/ Has(record.fields, col)) /\ SameNumber(CellOfRecord(record, col), id)

\* the least position of a non-empty set of positions
Least(S) == CHOOSE i \in S : \A j \in S : i <= j

KnownPresent(records) ==
    { j \in 1..Len(dossier_id_columns) :
        \E i \in 1..Len(ColumnsOfRecords(records)) :
            ColumnsOfRecords(records)[i] = dossier_id_columns[j] }

Scanned(records, id) ==
    { j \in 1..Len(ColumnsOfRecords(records)) :
        \E i \in 1..Len(records) : Refers(records[i], ColumnsOfRecords(records)[j], id) }

\* the referencing column the claim describes, "" when there is none
ChosenColumn(records, id) ==
    IF KnownPresent(records) # {}
    THEN dossier_id_columns[Least(KnownPresent(records))]
    ELSE IF Scanned(records, id) # {}
    THEN ColumnsOfRecords(records)[Least(Scanned(records, id))]
    ELSE ""

Referring(records, col, id) ==
    { i \in 1..Len(records) : col # "" /\ Refers(records[i], col, id) }

\* two cells hold the same value: equal, the same number, or both null
CellAgrees(v, w) ==
    v = w \/ SameNumber(v, w) \/ (v.t \in {"none", "nan"} /\ w.t \in {"none", "nan"})

\* the result found is that record: its identifier and every field of it
FoundIs(found, record) ==
    /\ CellAgrees(found.id, IdOfRecord(record))
    /\ \A j \in 1..Len(record.fields) :
           Has(found.fields, record.fields[j].k)
           /\ CellAgrees(Get(found.fields, record.fields[j].k, PyNone),
                         record.fields[j].v)

SoftFailures ==
    { <<"Aucune donnee dans la table des annotations">>,
      <<"Impossible de determiner la colonne de reference au dossier">>,
      <<"Aucune annotation trouvee pour ce dossier">> }

WithoutLaterCases(records, email) ==
    SelectSeq([i \in 1..Len(records) |-> [at |-> i, record |-> records[i]]],
              LAMBDA e : e.at \notin CasesWithEmail(records, email)
                         \/ e.at = Least(CasesWithEmail(records, email)))

RecordsOf(entries) == [i \in 1..Len(entries) |-> entries[i].record]

\* C18: when rows of the cases table have the email, the resolution
\* returns what it returns on the table without the later ones of these
\* rows: the record and the annotation lookup come from the earliest row
\* and later matching rows have no influence.
C18_FirstMatchWins ==
    ( /\ op = "resolve"
      /\ ~FetchFails(args.dossiers)
      /\ CasesWithEmail(args.dossiers.body.records, args.email) # {} )
    => ret = valider_email_et_recuperer_donnees(
                 args.email, GRIST_DOC_ID,
                 TableAnswer(RecordsOf(WithoutLaterCases(args.dossiers.body.records,
                                                         args.email))),
                 args.annotations)

\* the value of a field of the matched row as the claim reads it
FieldOr(record, key, default) == Get(record.fields, key, default)

\* C19: in a resolved record Numero_dossier is the N_dossier field of the
\* matched row when it has one, else its number field, else ""; Nom and
\* Titre_du_projet are its A_nom and A_titre_du_projet fields, or "".
C19_FieldsOfTheMatchedRow ==
    (op = "resolve" /\ ret.ok) =>
        LET row == FirstCase(args.dossiers.body.records, args.email)
        IN /\ CellAgrees(Get(ret.data, "Numero_dossier", PyNone),
                         FieldOr(row, "N_dossier",
                                 FieldOr(row, COL_NUMERO_DOSSIER, PyStr(<<>>))))
           /\ CellAgrees(Get(ret.data, "Nom", PyNone),
                         FieldOr(row, COL_NOM, PyStr(<<>>)))
           /\ CellAgrees(Get(ret.data, "Titre_du_projet", PyNone),
                         FieldOr(row, COL_TITRE_PROJET, PyStr(<<>>)))

====
